---- MODULE Spec2Model ----
(***************************************************************************)
(* Model of the tooltip coordinator of FileDiffHunks                       *)
(* (web/src/repo/compare/FileDiffHunks.tsx): the debounced gesture         *)
(* pipeline, the dock (fixedTooltip) pipeline, the mouseout / Escape /     *)
(* gutter listeners and the DOM state they toggle.                         *)
(*                                                                         *)
(* Every RxJS subscription that can still deliver a callback is an element *)
(* of gInner (inner observable of the gesture switchMap) or dInner (inner  *)
(* observable of the fixedTooltip switchMap); unsubscribing removes it.    *)
(***************************************************************************)
EXTENDS Naturals, FiniteSets, Sequences, TLC

\* ---------------------------------------------------------------- bounds
\* Number of raw mouseover/click events the environment delivers.
MaxEvents == 2
\* Number of rows of a hunk body.
MaxRows == 4

\* ------------------------------------------------------------- vocabulary
\* Content cells (tokens) of the grid; a token is its own anchor and its
\* own semantic position.
Pos == {"a", "b"}
\* Raw event targets: tokens, a line-number gutter cell with an id, a
\* boundary row (no semantic position) and an empty line-number cell
\* (diff-hunk__num--empty, no id).
Targets == Pos \cup {"gutter", "boundary", "nonum"}
EventTypes == {"mouseover", "click"}
\* Raw events delivered to the grid: both kinds on the tokens; off the tokens
\* the kind only matters to the gutter listener, which listens to clicks.
RawEvents ==
  (EventTypes \X Pos)
    \cup {<<"click", "gutter">>, <<"click", "nonum">>, <<"mouseover", "boundary">>}

None == "none"
NoEvent == [type |-> None, target |-> None]
\* TooltipData ({target, ctx, contents?, loading?, defUrlOrError?}); NoData
\* stands for undefined / null.
NoData == [target |-> None, contents |-> None, loading |-> FALSE, def |-> "undef"]
IsSet(data) == data.target # None
Hidden == [kind |-> "hidden", target |-> None, docked |-> FALSE, def |-> "undef"]

\* The modifier keys of a pointer event: none held, or one of the four.
KeyEvents ==
  {e \in [shiftKey : BOOLEAN, ctrlKey : BOOLEAN, altKey : BOOLEAN,
          metaKey : BOOLEAN] :
     Cardinality({k \in {"shiftKey", "ctrlKey", "altKey", "metaKey"} : e[k]}) <= 1}

\* The lookup services considered: "a" has hover content, "b" has hover
\* content or none.
HoverWorlds == {h \in [Pos -> {"content", "empty"}] : h["a"] = "content"}

HoverFailures == {"err", "EMODENOTFOUND"}
DefFailures == {"err"}

VARIABLES
  phase,         \* "constructed" | "mounted" | "unmounted"
  subs,          \* this.subscriptions: the live top-level subscriptions
  hoverOf,       \* the lookup service: hover result of each position
  fixedTooltip,  \* this.state.fixedTooltip
  hl,            \* elements carrying class selection-highlight
  sticky,        \* elements carrying class selection-highlight-sticky
  tip,           \* the tooltip element
  log,           \* eventLogger: number of events logged, by name
  history,       \* props.history: entries pushed
  deb,           \* debounceTime(50): the pending raw event
  gInner,        \* gesture switchMap: live inner subscriptions
  dInner,        \* fixedTooltip switchMap: live inner subscriptions
  nev,           \* raw events delivered so far
  cur,           \* target of the latest gesture that reached the switchMap
  clickLog,      \* docked events logged on behalf of the latest click gesture
  failed,        \* a lookup started for the latest gesture has failed
  last,          \* the step just taken
  dh,            \* DiffHunk: the hunk being rendered and the rows rendered
  og             \* another FileDiffHunks of the same document: "absent" | "mounted"

vars == <<phase, subs, hoverOf, fixedTooltip, hl, sticky, tip, log, history,
          deb, gInner, dInner, nev, cur, clickLog, failed, last, dh, og>>

\* The state the handlers of the component read and write.
UI == [fixedTooltip |-> fixedTooltip, hl |-> hl, sticky |-> sticky,
       tip |-> tip, log |-> log]

SetUI(s) ==
  /\ fixedTooltip' = s.fixedTooltip
  /\ hl' = s.hl
  /\ sticky' = s.sticky
  /\ tip' = s.tip
  /\ log' = s.log

Logged(l) == l.TooltipDocked + l.TooltipDockedWithDefinition

\* Lookups a step subscribes: none, the two subscriptions of the hover
\* observable a gesture makes (getDefinition(ctx) is called there but its
\* observable is never subscribed), and the getTooltip and getDefinition
\* subscriptions of the dock chain.
NoQueries == [hover |-> 0, def |-> 0]
gestureQueries == [hover |-> 2, def |-> 0]
dockQueries == [hover |-> 1, def |-> 1]

\* A catchError that writes every error to the console.
consoleErrorAlways(code) == TRUE

\* if (err.code !== EMODENOTFOUND) { console.error(err) }
consoleError(code) == code # "EMODENOTFOUND"

\* The record of a step: the handler that ran, its gesture, the lookup
\* outcome it handled, the lookups it issued (issued in all, idef definition
\* lookups), whether it wrote to console.error, and what was docked before.
Step(op, tgt, type, out, q, flag) ==
  [op |-> op, tgt |-> tgt, type |-> type, out |-> out,
   issued |-> q.hover + q.def, idef |-> q.def,
   cerr |-> (op \in {"GNotifier", "GHover", "DockHover"}
               /\ out \in HoverFailures /\ consoleError(out)),
   flag |-> flag, pre |-> fixedTooltip.target]

\* ------------------------------------------------------- lookup service
\* Jump URL of each position: "a" has no definition target, "b" has one.
getJumpURL(pos) == IF pos = "b" THEN "url" ELSE "null"

\* ------------------------------------------------- blob/tooltips helpers
hideTooltip(s) == [s EXCEPT !.tip = Hidden]

isEmptyHover(contents) == contents # "content"

updateTooltip(data, docked, s) ==
  IF data.loading
    THEN [s EXCEPT !.tip = [kind |-> "loading", target |-> data.target,
                            docked |-> docked, def |-> "undef"]]
    ELSE IF isEmptyHover(data.contents)
      THEN hideTooltip(s)
      ELSE [s EXCEPT !.tip = [kind |-> "shown", target |-> data.target,
                              docked |-> docked, def |-> data.def]]

getTargetLineAndOffset(target) == IF target \in Pos THEN target ELSE None

\* ------------------------------------------------------ component methods
\* setFixedTooltip without the removal of the sticky class.
setFixedTooltipKeepSticky(data, s) ==
  LET cleared == [s EXCEPT !.hl = {}] IN
  IF IsSet(data)
    THEN [cleared EXCEPT
            !.log = IF data.def = "undef"
                      THEN [@ EXCEPT !.TooltipDocked = @ + 1]
                      ELSE [@ EXCEPT !.TooltipDockedWithDefinition = @ + 1],
            !.sticky = @ \cup {data.target},
            !.fixedTooltip = data]
    ELSE [hideTooltip(cleared) EXCEPT !.fixedTooltip = NoData]

setFixedTooltip(data, s) ==
  LET cleared == [s EXCEPT !.hl = {}, !.sticky = {}] IN
  IF IsSet(data)
    THEN [cleared EXCEPT
            !.log = IF data.def = "undef"
                      THEN [@ EXCEPT !.TooltipDocked = @ + 1]
                      ELSE [@ EXCEPT !.TooltipDockedWithDefinition = @ + 1],
            !.sticky = {data.target},
            !.fixedTooltip = data]
    ELSE [hideTooltip(cleared) EXCEPT !.fixedTooltip = NoData]

\* The tap of getTooltip styling the target only while nothing is docked.
getTooltipTapUndocked(target, contents, s) ==
  IF isEmptyHover(contents) \/ IsSet(s.fixedTooltip)
    THEN s ELSE [s EXCEPT !.hl = @ \cup {target}]

\* getTooltip: the tap on the hover result, and the payload it maps to.
getTooltipTap(target, contents, s) ==
  IF isEmptyHover(contents) THEN s ELSE [s EXCEPT !.hl = @ \cup {target}]

getTooltipData(target, contents) ==
  [target |-> target, contents |-> contents, loading |-> FALSE, def |-> "undef"]

getLoadingTooltip(target) ==
  [target |-> target, contents |-> None, loading |-> TRUE, def |-> "undef"]

\* A catchError placed after the switchMap: the error ends the chain.
catchErrorOuter(live, chain) == live \ {chain}

\* catchError inside the inner observable of a switchMap: the error is
\* replaced by a value there, the subscription of the chain stays.
catchError(live, chain) == live

\* catchError(err => [{ target, ctx }])
BareData(target) ==
  [target |-> target, contents |-> None, loading |-> FALSE, def |-> "undef"]

\* handleDismiss acting only on a docked tooltip.
handleDismissDockedOnly(s) ==
  IF IsSet(s.fixedTooltip) THEN setFixedTooltip(NoData, s) ELSE s

handleDismiss(s) == setFixedTooltip(NoData, s)

\* e.shiftKey || e.ctrlKey || e.altKey || e.metaKey
modifier(e) == e.shiftKey \/ e.ctrlKey \/ e.altKey \/ e.metaKey

\* handleGoToDefinition navigating whatever keys are held.
handleGoToDefinitionNoGate(e, s) ==
  LET logged == [s EXCEPT !.log.GoToDefClicked = @ + 1] IN
  [ui |-> setFixedTooltip(NoData, hideTooltip(logged)),
   push |-> <<"definition">>, prevented |-> TRUE]

\* handleGoToDefinition(defCtx)(e): the UI state it leaves, what it pushes to
\* the history and whether it called e.preventDefault().
handleGoToDefinition(e, s) ==
  LET logged == [s EXCEPT !.log.GoToDefClicked = @ + 1] IN
  IF modifier(e)
    THEN [ui |-> logged, push |-> <<>>, prevented |-> FALSE]
    ELSE [ui |-> setFixedTooltip(NoData, hideTooltip(logged)),
          push |-> <<"definition">>, prevented |-> TRUE]

\* handleFindReferences(ctx)(e).
handleFindReferences(e, s) ==
  LET logged == [s EXCEPT !.log.FindRefsClicked = @ + 1] IN
  IF modifier(e)
    THEN [ui |-> logged, push |-> <<>>, prevented |-> FALSE]
    ELSE [ui |-> logged, push |-> <<"references">>, prevented |-> TRUE]

\* ------------------------------------------------------------ dock chain
\* The tap of the dock chain ignoring an empty hover result.
dockTapKeep(tooltip, s) ==
  IF isEmptyHover(tooltip.contents)
    THEN s
    ELSE updateTooltip(tooltip, TRUE, setFixedTooltip(tooltip, s))

\* The tap of the dock chain leaving the docking to the subscriber.
dockTapWait(tooltip, s) ==
  IF isEmptyHover(tooltip.contents) THEN setFixedTooltip(NoData, s) ELSE s

\* tap of the dock chain on the hover result.
dockTap(tooltip, s) ==
  IF isEmptyHover(tooltip.contents)
    THEN setFixedTooltip(NoData, s)
    ELSE updateTooltip(tooltip, TRUE, setFixedTooltip(tooltip, s))

\* map(([tooltip, defResponse]) => ({...tooltip, defUrlOrError: defResponse || undefined}))
dockMap(tooltip, defResponse) ==
  [tooltip EXCEPT !.def = IF defResponse = "null" THEN "undef" ELSE defResponse]

\* The subscriber docking a payload that has no contents.
dockSubscriberBare(data, s) ==
  IF ~IsSet(data)
    THEN setFixedTooltip(NoData, s)
    ELSE updateTooltip(data, TRUE, setFixedTooltip(data, s))

\* subscriber of the dock chain.
dockSubscriber(data, s) ==
  IF ~IsSet(data) \/ isEmptyHover(data.contents)
    THEN setFixedTooltip(NoData, s)
    ELSE updateTooltip(data, TRUE, setFixedTooltip(data, s))

\* switchMap of the dock chain on this.fixedTooltip.next(data): the previous
\* inner subscription is dropped, getTooltip and getDefinition are subscribed.
fixedTooltipNext(data, inners) ==
  {[target |-> data.target, h |-> "pending", d |-> "pending", fresh |-> TRUE]}

\* --------------------------------------------------------- gesture chain
\* A debounce keeping the first event of a burst.
debounceTimeFirst(pending, ev) == IF pending = NoEvent THEN ev ELSE pending

\* debounceTime(50) on a raw event: it replaces the pending one and restarts
\* the interval.
debounceTime(pending, ev) == ev

\* The gesture chain without the filter on the resolved position.
FilterLocAll(loc) == TRUE

\* filter(data => !!data.loc && Boolean(data.loc.part))
FilterLoc(loc) == loc # None

\* switchMap of the gesture chain: the previous inner subscription is
\* dropped; the hover lookup is subscribed twice (takeUntil notifier n and
\* merge member m) and the loading timer t is started.
gestureSwitchMap(type, target, inners) ==
  {[type |-> type, target |-> target, n |-> TRUE, m |-> TRUE, t |-> TRUE]}

\* An inner subscription stays only while one of its members is live.
Live(inners) == {i \in inners : i.n \/ i.m \/ i.t}

\* The subscriber without the check of this.state.fixedTooltip.
gestureSubscriberNoGuard(data, type, s, inners) ==
  IF type = "click"
    THEN [ui |-> s, dock |-> fixedTooltipNext(data, inners), issued |-> dockQueries]
    ELSE [ui |-> updateTooltip(data, FALSE, s), dock |-> inners, issued |-> NoQueries]

\* The subscriber docking every payload, whatever the gesture kind.
gestureSubscriberAllDock(data, type, s, inners) ==
  [ui |-> s, dock |-> fixedTooltipNext(data, inners), issued |-> dockQueries]

\* subscriber of the gesture chain; yields the new UI state and dock chain.
gestureSubscriber(data, type, s, inners) ==
  IF type = "click"
    THEN [ui |-> s, dock |-> fixedTooltipNext(data, inners), issued |-> dockQueries]
    ELSE [ui |-> IF ~IsSet(s.fixedTooltip) THEN updateTooltip(data, FALSE, s) ELSE s,
          dock |-> inners, issued |-> NoQueries]

\* A gutter listener pushing the id of every line-number cell clicked.
gutterFilterNoId(target) == target \in {"gutter", "nonum"}

\* filter(e => target.classList.contains('diff-hunk__num') && !!target.id)
gutterFilter(target) == target = "gutter"

\* The subscriptions setElement(ref) adds to this.subscriptions: the dock
\* chain, refSubscriptions (the gesture chain), mouseout, keydown and the
\* gutter click.
setElement == {"dock", "gesture", "mouseout", "keydown", "gutter"}

\* An unmount that releases refSubscriptions only.
componentWillUnmountRefOnly(live) == live \ {"gesture"}

\* componentWillUnmount: this.subscriptions.unsubscribe().
componentWillUnmount(live) == {}

\* ------------------------------------------------------------- DiffHunk
\* hunk.oldRange.startLine, hunk.newRange.startLine
StartLines == {1, 3}
\* Leading characters of context, removed and added rows.
Tags == {" ", "-", "+"}
\* Lines of a hunk body: a context, a removed and an added line, a line with
\* another leading character, and an empty line.
HunkLines == {<<" ", "t">>, <<"-", "t">>, <<"+", "t">>, <<"\\", "t">>, <<>>}

\* hunk.body of the given lines, each but the last followed by a line
\* terminator, the last one only when the body is terminated.
RECURSIVE Join(_, _)
Join(lines, terminated) ==
  IF Len(lines) = 0 THEN <<>>
  ELSE IF Len(lines) = 1
    THEN IF terminated THEN Head(lines) \o <<"\n">> ELSE Head(lines)
    ELSE Head(lines) \o <<"\n">> \o Join(Tail(lines), terminated)

HunkBodies ==
  {Join(ls, term) : ls \in UNION {[1..k -> HunkLines] : k \in 0..MaxRows},
                    term \in BOOLEAN}

\* body.split('\n')
RECURSIVE split(_)
split(body) ==
  IF \A k \in 1..Len(body) : body[k] # "\n"
    THEN <<body>>
    ELSE LET k == CHOOSE k \in 1..Len(body) :
                    body[k] = "\n" /\ \A j \in 1..(k - 1) : body[j] # "\n"
         IN <<SubSeq(body, 1, k - 1)>> \o split(SubSeq(body, k + 1, Len(body)))

\* .slice(0, -1)
slice(lines) == SubSeq(lines, 1, Len(lines) - 1)

\* line[0]
lead(line) == IF Len(line) = 0 THEN "undefined" ELSE line[1]

\* The map callback advancing the new line counter on every row.
mapLineBothAdvance(line, oldLine, newLine, lineNumbers) ==
  LET c == lead(line)
      o == IF c # "+" THEN oldLine + 1 ELSE oldLine
      n == newLine + 1
  IN [oldLine |-> o, newLine |-> n,
      row |-> [cls |-> IF c = " " THEN "both"
                       ELSE IF c = "-" THEN "deletion"
                       ELSE IF c = "+" THEN "addition" ELSE "",
               hasOld |-> lineNumbers /\ c # "+",
               old |-> IF lineNumbers /\ c # "+" THEN o - 1 ELSE 0,
               hasNew |-> lineNumbers /\ c # "-",
               new |-> IF lineNumbers /\ c # "-" THEN n - 1 ELSE 0,
               content |-> line]]

\* The map callback of DiffHunk on one line: the counters it leaves and the
\* row it renders (line class, old and new number cell, content cell).
mapLine(line, oldLine, newLine, lineNumbers) ==
  LET c == lead(line)
      o == IF c # "+" THEN oldLine + 1 ELSE oldLine
      n == IF c # "-" THEN newLine + 1 ELSE newLine
  IN [oldLine |-> o, newLine |-> n,
      row |-> [cls |-> IF c = " " THEN "both"
                       ELSE IF c = "-" THEN "deletion"
                       ELSE IF c = "+" THEN "addition" ELSE "",
               hasOld |-> lineNumbers /\ c # "+",
               old |-> IF lineNumbers /\ c # "+" THEN o - 1 ELSE 0,
               hasNew |-> lineNumbers /\ c # "-",
               new |-> IF lineNumbers /\ c # "-" THEN n - 1 ELSE 0,
               content |-> line]]

\* A hunk handed to DiffHunk before its first row is rendered.
Hunk(oldStart, newStart, body, lineNumbers) ==
  [oldStart |-> oldStart, newStart |-> newStart, body |-> body,
   lineNumbers |-> lineNumbers, i |-> 1,
   oldLine |-> oldStart, newLine |-> newStart, rows |-> <<>>]

\* hunks of a file diff without changes.
NoHunk == Hunk(1, 1, <<>>, TRUE)

\* -------------------------------------------------------------- initial
InitCoordinator ==
  /\ og = "absent"
  /\ phase = "constructed"
  /\ subs = {}
  /\ hoverOf \in HoverWorlds
  /\ fixedTooltip = NoData
  /\ hl = {}
  /\ sticky = {}
  /\ tip = Hidden
  /\ log = [TooltipDocked |-> 0, TooltipDockedWithDefinition |-> 0,
            GoToDefClicked |-> 0, FindRefsClicked |-> 0]
  /\ history = <<>>
  /\ deb = NoEvent
  /\ gInner = {}
  /\ dInner = {}
  /\ nev = 0
  /\ cur = None
  /\ clickLog = 0
  /\ failed = FALSE
  /\ last = [op |-> "Init", tgt |-> None, type |-> None, out |-> None,
             issued |-> 0, idef |-> 0, cerr |-> FALSE, flag |-> FALSE,
             pre |-> None]

Init ==
  /\ InitCoordinator
  /\ dh = NoHunk

\* --------------------------------------------------------------- actions
\* setElement(ref): the dock chain starts with null and clears everything.
Mount ==
  /\ phase = "constructed"
  /\ phase' = "mounted"
  /\ subs' = setElement
  /\ SetUI(dockSubscriber(NoData, UI))
  /\ last' = Step("Mount", None, None, None, NoQueries, FALSE)
  /\ UNCHANGED <<hoverOf, dh, og, history, deb, gInner, dInner, nev, cur, clickLog, failed>>

\* A raw mouseover or click on the grid: restarts the debounce; a click on a
\* gutter cell with an id also pushes its hash.  Without listeners the event
\* changes nothing.
RawEvent(type, target) ==
  /\ phase # "constructed"
  /\ nev < MaxEvents
  /\ IF subs \cap {"gesture", "gutter"} = {}
       THEN UNCHANGED vars
       ELSE /\ nev' = nev + 1
            /\ deb' = IF "gesture" \in subs
                        THEN debounceTime(deb, [type |-> type, target |-> target])
                        ELSE deb
            /\ history' = IF "gutter" \in subs /\ type = "click" /\ gutterFilter(target)
                            THEN Append(history, target) ELSE history
            /\ last' = Step("RawEvent", target, type, None, NoQueries, deb # NoEvent)
            /\ UNCHANGED <<phase, subs, hoverOf, dh, og, fixedTooltip, hl, sticky, tip, log,
                           gInner, dInner, cur, clickLog, failed>>

\* The debounce interval elapses: the gesture is resolved, filtered and
\* switched to.
Gesture ==
  /\ deb # NoEvent
  /\ deb' = NoEvent
  /\ LET loc == getTargetLineAndOffset(deb.target) IN
     IF FilterLoc(loc)
       THEN /\ gInner' = gestureSwitchMap(deb.type, deb.target, gInner)
            /\ cur' = deb.target
            /\ clickLog' = 0
            /\ failed' = FALSE
            /\ dInner' = {[i EXCEPT !.fresh = FALSE] : i \in dInner}
            /\ last' = Step("Gesture", deb.target, deb.type, None, gestureQueries,
                            \E i \in gInner : i.target # deb.target)
       ELSE /\ UNCHANGED <<gInner, cur, clickLog, failed, dInner>>
            /\ last' = Step("Gesture", deb.target, deb.type, None, NoQueries,
                            gInner # {})
  /\ UNCHANGED <<phase, subs, hoverOf, dh, og, fixedTooltip, hl, sticky, tip, log,
                 history, nev>>

\* Delivery of a payload of the gesture chain to its subscriber.
GestureEmit(op, i, data, out, s, rest, flag) ==
  LET r == gestureSubscriber(data, i.type, s, dInner) IN
  /\ SetUI(r.ui)
  /\ dInner' = r.dock
  /\ gInner' = Live(rest)
  /\ failed' = (failed \/ out \in HoverFailures)
  /\ subs' = IF out \in HoverFailures THEN catchError(subs, "gesture") ELSE subs
  /\ last' = Step(op, i.target, i.type, out, r.issued, flag)
  /\ UNCHANGED <<phase, hoverOf, dh, og, history, deb, nev, cur, clickLog>>

\* interval(500) fires: the loading payload is emitted, take(1) completes and
\* the notifier is unsubscribed.
GTimer(i) ==
  /\ i \in gInner /\ i.t
  /\ GestureEmit("GTimer", i, getLoadingTooltip(i.target), "loading", UI,
                 (gInner \ {i}) \cup {[i EXCEPT !.t = FALSE, !.n = FALSE]}, ~i.m)

\* The hover lookup subscribed by takeUntil resolves: a value stops the
\* timer, a failure is forwarded and caught by catchError.
GNotifier(i, fail) ==
  /\ i \in gInner /\ i.n
  /\ IF fail \in HoverFailures
       THEN GestureEmit("GNotifier", i, BareData(i.target), fail, UI,
                        gInner \ {i}, ~i.m)
       ELSE /\ fail = "ok"
            /\ SetUI(getTooltipTap(i.target, hoverOf[i.target], UI))
            /\ gInner' = Live((gInner \ {i}) \cup {[i EXCEPT !.t = FALSE, !.n = FALSE]})
            /\ last' = Step("GNotifier", i.target, i.type, hoverOf[i.target],
                            NoQueries, ~i.m)
            /\ UNCHANGED <<phase, subs, hoverOf, dh, og, history, deb, dInner, nev, cur,
                           clickLog, failed>>

\* The hover lookup subscribed by merge resolves.
GHover(i, fail) ==
  /\ i \in gInner /\ i.m
  /\ IF fail \in HoverFailures
       THEN GestureEmit("GHover", i, BareData(i.target), fail, UI,
                        gInner \ {i}, i.t)
       ELSE /\ fail = "ok"
            /\ GestureEmit("GHover", i, getTooltipData(i.target, hoverOf[i.target]),
                           hoverOf[i.target],
                           getTooltipTap(i.target, hoverOf[i.target], UI),
                           (gInner \ {i}) \cup {[i EXCEPT !.m = FALSE]}, i.t)

\* Bookkeeping shared by the steps of the dock chain.
DockStep(op, i, out, s, rest) ==
  /\ SetUI(s)
  /\ dInner' = rest
  /\ clickLog' = IF i.fresh THEN clickLog + (Logged(s.log) - Logged(log)) ELSE clickLog
  /\ failed' = (failed \/ (i.fresh /\ out \in HoverFailures \cup DefFailures))
  /\ subs' = IF out \in HoverFailures \cup DefFailures
               THEN catchError(subs, "dock") ELSE subs
  /\ last' = Step(op, i.target, "click", out, NoQueries, i.fresh)
  /\ UNCHANGED <<phase, hoverOf, dh, og, history, deb, gInner, nev, cur>>

\* The hover lookup of the dock chain resolves.
DockHover(i, fail) ==
  /\ i \in dInner /\ i.h = "pending"
  /\ IF fail \in HoverFailures
       THEN DockStep("DockHover", i, fail,
                     dockSubscriber(BareData(i.target), UI), dInner \ {i})
       ELSE /\ fail = "ok"
            /\ LET c == hoverOf[i.target]
                   tooltip == getTooltipData(i.target, c)
                   s1 == dockTap(tooltip, getTooltipTap(i.target, c, UI))
               IN IF i.d = "pending"
                    THEN DockStep("DockHover", i, c, s1,
                                  (dInner \ {i}) \cup {[i EXCEPT !.h = c]})
                    ELSE DockStep("DockHover", i, c,
                                  dockSubscriber(dockMap(tooltip, i.d), s1),
                                  dInner \ {i})

\* The definition lookup of the dock chain resolves (a failure is caught and
\* zipped as a value).
DockDef(i, fail) ==
  /\ i \in dInner /\ i.d = "pending"
  /\ fail \in DefFailures \cup {"ok"}
  /\ LET r == IF fail = "ok" THEN getJumpURL(i.target) ELSE fail IN
     IF i.h = "pending"
       THEN DockStep("DockDef", i, r, UI, (dInner \ {i}) \cup {[i EXCEPT !.d = r]})
       ELSE DockStep("DockDef", i, r,
                     dockSubscriber(dockMap(getTooltipData(i.target, i.h), r), UI),
                     dInner \ {i})

\* A step of a handler that only touches the UI state.
UIStep(op, s, flag) ==
  /\ SetUI(s)
  /\ last' = Step(op, None, None, None, NoQueries, flag)
  /\ UNCHANGED <<phase, subs, hoverOf, dh, og, history, deb, gInner, dInner, nev, cur,
                 clickLog, failed>>

\* The mouseout listener hiding the tooltip whatever is docked.
mouseoutHideAlways(s) == hideTooltip([s EXCEPT !.hl = {}])

\* The mouseout listener: the highlight class is removed from every element
\* of the grid and the tooltip is hidden unless one is docked.
mouseout(s) ==
  LET cleared == [s EXCEPT !.hl = {}] IN
  IF ~IsSet(s.fixedTooltip) THEN hideTooltip(cleared) ELSE cleared

\* mouseout on the grid.
MouseOut ==
  /\ phase # "constructed"
  /\ IF "mouseout" \in subs
       THEN UIStep("MouseOut", mouseout(UI), tip # Hidden)
       ELSE UNCHANGED vars

\* keydown Escape on the window.
Escape ==
  /\ phase # "constructed"
  /\ IF "keydown" \in subs
       THEN UIStep("Escape", handleDismiss(UI), tip # Hidden)
       ELSE UNCHANGED vars

\* The dismiss action of the tooltip.
Dismiss ==
  /\ phase = "mounted"
  /\ UIStep("Dismiss", handleDismiss(UI), tip # Hidden)

\* A click on an action of the tooltip shown.
NavStep(op, e, r) ==
  /\ phase = "mounted"
  /\ tip.kind = "shown"
  /\ nev < MaxEvents
  /\ nev' = nev + 1
  /\ SetUI(r.ui)
  /\ history' = history \o r.push
  /\ last' = Step(op, tip.target, "click",
                  IF r.prevented THEN "prevented" ELSE "default",
                  NoQueries, modifier(e))
  /\ UNCHANGED <<phase, subs, hoverOf, dh, og, deb, gInner, dInner, cur, clickLog,
                 failed>>

GoToDefinition(e) == NavStep("GoToDefinition", e, handleGoToDefinition(e, UI))

FindReferences(e) == NavStep("FindReferences", e, handleFindReferences(e, UI))

\* The component unmounts; every inner subscription and timer goes with the
\* subscription that owns it.
Unmount ==
  /\ phase = "mounted"
  /\ phase' = "unmounted"
  /\ subs' = componentWillUnmount(subs)
  /\ deb' = IF "gesture" \in subs' THEN deb ELSE NoEvent
  /\ gInner' = IF "gesture" \in subs' THEN gInner ELSE {}
  /\ dInner' = IF "dock" \in subs' THEN dInner ELSE {}
  /\ last' = Step("Unmount", None, None, None, NoQueries,
                  deb # NoEvent \/ gInner # {} \/ dInner # {})
  /\ UNCHANGED <<hoverOf, dh, og, fixedTooltip, hl, sticky, tip, log, history,
                 nev, cur, clickLog, failed>>

HoverOutcomes == {"ok"} \cup HoverFailures
DefOutcomes == {"ok"} \cup DefFailures

Next ==
  \/ Mount
  \/ \E ev \in RawEvents : RawEvent(ev[1], ev[2])
  \/ Gesture
  \/ \E i \in gInner : GTimer(i)
  \/ \E i \in gInner, f \in HoverOutcomes : GNotifier(i, f)
  \/ \E i \in gInner, f \in HoverOutcomes : GHover(i, f)
  \/ \E i \in dInner, f \in HoverOutcomes : DockHover(i, f)
  \/ \E i \in dInner, f \in DefOutcomes : DockDef(i, f)
  \/ MouseOut
  \/ Escape
  \/ Dismiss
  \/ \E e \in KeyEvents : GoToDefinition(e)
  \/ \E e \in KeyEvents : FindReferences(e)
  \/ Unmount

Spec == Init /\ [][Next]_vars

\* The debounce interval and the loading interval elapse and every lookup
\* subscribed resolves, with a value or with an error.
FairSpec ==
  /\ Spec
  /\ WF_vars(Gesture)
  /\ WF_vars(\E i \in gInner : GTimer(i))
  /\ WF_vars(\E i \in gInner, f \in HoverOutcomes : GNotifier(i, f))
  /\ WF_vars(\E i \in gInner, f \in HoverOutcomes : GHover(i, f))
  /\ WF_vars(\E i \in dInner, f \in HoverOutcomes : DockHover(i, f))
  /\ WF_vars(\E i \in dInner, f \in DefOutcomes : DockDef(i, f))

\* --------------------------------------- several grids in one document
\* setFixedTooltip of another FileDiffHunks, seen from this one: the
\* highlight and the sticky class are removed from every element of the
\* document, and the tooltip is hidden or shows what the other grid docks.
\* The state and the telemetry of this grid are not touched.
otherSetFixedTooltip(docks, s) ==
  LET cleared == [s EXCEPT !.hl = {}, !.sticky = {}] IN
  IF docks
    THEN [cleared EXCEPT !.tip = [kind |-> "shown", target |-> "other",
                                  docked |-> TRUE, def |-> "undef"]]
    ELSE hideTooltip(cleared)

OtherStep(op, s) ==
  /\ phase = "mounted"
  /\ SetUI(s)
  /\ last' = Step(op, "other", None, None, NoQueries, IsSet(fixedTooltip))
  /\ UNCHANGED <<phase, subs, hoverOf, dh, history, deb, gInner, dInner, nev,
                 cur, clickLog, failed>>

\* The other grid mounts: its dock chain starts with null.
OtherMount ==
  /\ og = "absent"
  /\ og' = "mounted"
  /\ OtherStep("OtherMount", otherSetFixedTooltip(FALSE, UI))

\* A click in the other grid docks a tooltip there.
OtherDock ==
  /\ og = "mounted"
  /\ og' = og
  /\ OtherStep("OtherDock", otherSetFixedTooltip(TRUE, UI))

\* The other grid dismisses its tooltip.
OtherDismiss ==
  /\ og = "mounted"
  /\ og' = og
  /\ OtherStep("OtherDismiss", otherSetFixedTooltip(FALSE, UI))

NextGrids ==
  \/ Next
  \/ OtherMount
  \/ OtherDock
  \/ OtherDismiss

SpecGrids == Init /\ [][NextGrids]_vars

\* ------------------------------------------------ rendering of one hunk
InitHunk ==
  /\ InitCoordinator
  /\ hoverOf = [p \in Pos |-> "content"]
  /\ dh \in {Hunk(o, n, body, ln) : o \in StartLines, n \in StartLines,
                                    body \in HunkBodies, ln \in BOOLEAN}

\* One call of the map callback, on line dh.i of the body.
DiffHunkRow ==
  LET lines == slice(split(dh.body)) IN
  /\ dh.i \in 1..Len(lines)
  /\ LET r == mapLine(lines[dh.i], dh.oldLine, dh.newLine, dh.lineNumbers)
     IN dh' = [dh EXCEPT !.i = @ + 1, !.oldLine = r.oldLine,
                         !.newLine = r.newLine, !.rows = Append(@, r.row)]
  /\ UNCHANGED <<phase, subs, hoverOf, fixedTooltip, hl, sticky, tip, log,
                 history, deb, gInner, dInner, nev, cur, clickLog, failed, last,
                 og>>

NextHunk == DiffHunkRow

SpecHunk == InitHunk /\ [][NextHunk]_vars

\* ================================================================ claims
GestureOps == {"GTimer", "GNotifier", "GHover"}
DockOps == {"DockHover", "DockDef"}
LookupOps == GestureOps \cup DockOps
Failures == HoverFailures \cup DefFailures
Visible == <<fixedTooltip, tip, hl, sticky>>
DockedView == <<fixedTooltip, sticky, tip>>

\* C1: once the gesture for position B has begun, no result of a lookup
\* started for a different position A - the dock chain's lookups included -
\* changes the tooltip state or the highlight styling.
C1_LastGestureWins ==
  [][(last'.op \in LookupOps /\ Visible' # Visible) => last'.tgt = cur']_vars

\* C2: at most one tooltip is docked and at most one anchor carries the
\* sticky class, namely the docked one; when the dock chain's hover lookup
\* resolves with content for B, B is the docked tooltip and the only sticky
\* anchor, and no anchor (the previously docked one included) is highlighted.
C2_OneDocked ==
  /\ Cardinality(sticky) <= 1
  /\ sticky = IF IsSet(fixedTooltip) THEN {fixedTooltip.target} ELSE {}
  /\ (last.op = "DockHover" /\ last.out = "content") =>
       /\ fixedTooltip.target = last.tgt
       /\ sticky = {last.tgt}
       /\ hl = {}
       /\ tip.kind = "shown" /\ tip.target = last.tgt /\ tip.docked

\* A was docked and the click on B has just docked B.
C2_Witness ==
  /\ last.op = "DockHover" /\ last.out = "content"
  /\ last.pre \in Pos \ {last.tgt}
  /\ fixedTooltip.target = last.tgt

\* C3: right after Escape or dismiss nothing is docked, the tooltip is
\* hidden and no anchor carries the highlight or the sticky class.
C3_DismissIdle ==
  last.op \in {"Escape", "Dismiss"} =>
    /\ ~IsSet(fixedTooltip)
    /\ tip = Hidden
    /\ hl = {}
    /\ sticky = {}

\* Escape was pressed while a tooltip was docked and a gesture was in flight.
C3_Witness ==
  /\ last.op = "Escape"
  /\ last.pre \in Pos
  /\ gInner # {}

\* C4: while a tooltip is docked, raw pointer-over events, hover gestures
\* (their loading timer and hover results) and mouseout leave the docked
\* tooltip, its sticky anchor and the tooltip element unchanged.
C4_DockedPersists ==
  [][(/\ IsSet(fixedTooltip)
      /\ \/ last'.op = "MouseOut"
         \/ /\ last'.op \in GestureOps \cup {"Gesture", "RawEvent"}
            /\ last'.type = "mouseover")
     => UNCHANGED DockedView]_vars

\* The hover lookup of a hover gesture on another position resolved with
\* content while a tooltip was docked.
C4_Witness ==
  /\ last.op = "GHover" /\ last.type = "mouseover" /\ last.out = "content"
  /\ last.pre \in Pos \ {last.tgt}
  /\ fixedTooltip.target = last.pre

\* C5: the loading payload of a gesture is never emitted after the hover
\* result of the same gesture has been delivered.
C5_NoLoadingAfterResult ==
  ~(last.op = "GTimer" /\ last.flag)

C7_DockedLoggedOnce ==
  clickLog <= 1

\* C8: a debounced gesture whose target has no semantic position changes
\* neither the UI state, the telemetry, the history nor the lookup chains in
\* flight, and starts no lookup.
C8_NoPositionNoOp ==
  [][(/\ deb # NoEvent
      /\ last'.op = "Gesture"
      /\ getTargetLineAndOffset(deb.target) = None)
     => (/\ UNCHANGED <<fixedTooltip, tip, hl, sticky, log, history, gInner,
                        dInner, cur>>
         /\ last'.issued = 0)]_vars

\* A gesture on the boundary row was processed while the lookup chain of an
\* earlier gesture was in flight.
C8_Witness ==
  /\ last.op = "Gesture"
  /\ last.tgt \notin Pos
  /\ last.flag
  /\ \E i \in gInner : i.m

\* C9: after unmount no listener, timer or lookup subscription is left and
\* no step changes the tooltip state, the styling, the history or the
\* telemetry.
C9_UnmountReleases ==
  /\ [](phase = "unmounted" =>
          (subs = {} /\ gInner = {} /\ dInner = {} /\ deb = NoEvent))
  /\ [][phase = "unmounted" =>
          UNCHANGED <<fixedTooltip, tip, hl, sticky, history, log>>]_vars

\* The grid was unmounted with a debounce, a lookup or a dock chain pending.
C9_Witness ==
  /\ phase = "unmounted"
  /\ last.op = "Unmount"
  /\ last.flag

C12_UnsupportedAsEmpty ==
  /\ last.out = "EMODENOTFOUND" => ~last.cerr
  /\ (last.out = "err" /\ last.op \in {"GNotifier", "GHover", "DockHover"})
       => last.cerr
  /\ (/\ \/ last.out = "EMODENOTFOUND" /\ last.op \in {"GNotifier", "GHover"}
         \/ last.out = "empty" /\ last.op = "GHover"
      /\ last.type = "mouseover")
     => IF last.pre = None
          THEN tip = Hidden /\ ~IsSet(fixedTooltip)
          ELSE fixedTooltip.target = last.pre /\ sticky = {last.pre}
  /\ (last.out \in {"EMODENOTFOUND", "empty"} /\ last.op = "DockHover")
     => (~IsSet(fixedTooltip) /\ sticky = {} /\ tip = Hidden)

\* The hover lookup of a hover gesture failed with EMODENOTFOUND before its
\* loading timer fired, with nothing docked: the chain has ended and no
\* tooltip is shown.
C12_Witness ==
  /\ last.op = "GHover" /\ last.out = "EMODENOTFOUND"
  /\ last.type = "mouseover" /\ last.pre = None
  /\ last.flag /\ ~last.cerr
  /\ gInner = {} /\ tip = Hidden

\* C13: in a hunk whose rows all lead with ' ', '-' or '+', row i shows as
\* old number the old start line plus the number of context and removed rows
\* before it when it is a context or removed row and none when it is added,
\* and as new number the new start line plus the number of context and added
\* rows before it when it is a context or added row and none when removed.
C13_RowNumbers ==
  LET lines == slice(split(dh.body))
      Before(i, tags) == Cardinality({j \in 1..(i - 1) : lead(lines[j]) \in tags})
  IN (dh.lineNumbers /\ \A j \in 1..Len(lines) : lead(lines[j]) \in Tags)
     => \A i \in 1..Len(dh.rows) :
          /\ dh.rows[i].hasOld = (lead(lines[i]) \in {" ", "-"})
          /\ dh.rows[i].hasOld =>
               dh.rows[i].old = dh.oldStart + Before(i, {" ", "-"})
          /\ dh.rows[i].hasNew = (lead(lines[i]) \in {" ", "+"})
          /\ dh.rows[i].hasNew =>
               dh.rows[i].new = dh.newStart + Before(i, {" ", "+"})

\* The hunk of a context, a removed and two added rows starting at (1, 1) is
\* rendered with the numbers (1, 1), (2, none), (none, 2), (none, 3).
C13_Witness ==
  /\ dh.body = <<" ", "t", "\n", "-", "t", "\n", "+", "t", "\n", "+", "t", "\n">>
  /\ dh.oldStart = 1 /\ dh.newStart = 1 /\ dh.lineNumbers
  /\ Len(dh.rows) = 4
  /\ <<dh.rows[1].old, dh.rows[1].new>> = <<1, 1>>
  /\ dh.rows[2].old = 2 /\ ~dh.rows[2].hasNew
  /\ ~dh.rows[3].hasOld /\ dh.rows[3].new = 2
  /\ ~dh.rows[4].hasOld /\ dh.rows[4].new = 3

\* C14: a row whose leading character is none of ' ', '-', '+' gets no line
\* number and no line class, and no row of its hunk shows a line number.
C14_MalformedUnnumbered ==
  LET lines == slice(split(dh.body)) IN
  \A i \in 1..Len(dh.rows) :
    lead(lines[i]) \notin Tags =>
      /\ ~dh.rows[i].hasOld /\ ~dh.rows[i].hasNew /\ dh.rows[i].cls = ""
      /\ dh.i > Len(lines) =>
           \A j \in 1..Len(dh.rows) : ~dh.rows[j].hasOld /\ ~dh.rows[j].hasNew

\* C15: go-to-definition and find-references invoked with a modifier key
\* held push nothing to the history, do not prevent the default behaviour of
\* the event and leave the docked tooltip, the tooltip element and the
\* styling unchanged; invoked without one each pushes exactly one entry.
C15_ModifierGated ==
  [][last'.op \in {"GoToDefinition", "FindReferences"} =>
       IF last'.flag
         THEN /\ history' = history
              /\ last'.out = "default"
              /\ UNCHANGED Visible
         ELSE /\ Len(history') = Len(history) + 1
              /\ history' = Append(history,
                                   IF last'.op = "GoToDefinition"
                                     THEN "definition" ELSE "references")
              /\ last'.out = "prevented"]_vars

\* Go-to-definition was clicked with a modifier key held on a docked
\* tooltip, which is still docked and shown.
C15_Witness ==
  /\ last.op = "GoToDefinition" /\ last.flag
  /\ last.pre \in Pos
  /\ fixedTooltip.target = last.pre
  /\ tip.kind = "shown" /\ tip.docked
  /\ history = <<>>

\* C16: a click on a line-number cell with an id pushes exactly one history
\* entry, the id of the cell, and a click on an empty line-number cell pushes
\* none; neither the click nor the gesture debounced from it starts a lookup
\* or changes the docked tooltip, the tooltip element, the styling or the
\* lookup chains in flight.
C16_GutterClick ==
  [][/\ (/\ last'.op = "RawEvent" /\ last'.type = "click"
         /\ last'.tgt \in {"gutter", "nonum"})
        => /\ history' = IF last'.tgt = "gutter"
                           THEN Append(history, "gutter") ELSE history
           /\ UNCHANGED <<Visible, gInner, dInner>>
           /\ last'.issued = 0
     /\ (/\ last'.op = "Gesture" /\ deb # NoEvent
         /\ deb.target \in {"gutter", "nonum"})
        => /\ UNCHANGED <<Visible, gInner, dInner, history>>
           /\ last'.issued = 0]_vars

\* A line-number cell was clicked while a tooltip was docked and a lookup
\* chain was in flight: its id is the one history entry.
C16_Witness ==
  /\ last.op = "RawEvent" /\ last.tgt = "gutter"
  /\ history = <<"gutter">>
  /\ IsSet(fixedTooltip) /\ tip.docked
  /\ gInner # {}

\* C17: right after the pointer left the grid no anchor carries the hover
\* highlight; when nothing was docked the tooltip is hidden and nothing is
\* docked, and when a tooltip was docked it is still docked, its anchor is
\* still sticky and the tooltip is still shown, docked, at that position.
C17_MouseOut ==
  last.op = "MouseOut" =>
    /\ hl = {}
    /\ IF last.pre = None
         THEN tip = Hidden /\ ~IsSet(fixedTooltip)
         ELSE /\ fixedTooltip.target = last.pre
              /\ sticky = {last.pre}
              /\ tip.kind = "shown" /\ tip.docked /\ tip.target = last.pre

\* The pointer left the grid while a tooltip was docked and the hover lookup
\* of a later gesture was in flight.
C17_Witness ==
  /\ last.op = "MouseOut"
  /\ last.pre \in Pos
  /\ fixedTooltip.target = last.pre
  /\ \E i \in gInner : i.m /\ i.target # last.pre

\* C18: when the hover lookup of a hover gesture resolves Empty with nothing
\* docked the tooltip is hidden, and after a step of the chain of a hover
\* gesture (its timer or a hover result) the loading tooltip is shown only
\* while the hover lookup that delivers the result of that gesture is still
\* pending.
C18_NoLoadingAfterResolve ==
  /\ (/\ last.op = "GHover" /\ last.type = "mouseover"
      /\ last.out = "empty" /\ last.pre = None)
     => (tip = Hidden /\ ~IsSet(fixedTooltip))
  /\ (/\ last.op \in GestureOps /\ last.type = "mouseover"
      /\ tip.kind = "loading")
     => \E i \in gInner : i.target = last.tgt /\ i.m

\* C19: every gesture with a position issues exactly one hover query and
\* one definition query when it is processed, and no other step issues a
\* query (docking adds none).
C19_OneQueryEach ==
  /\ (last.op = "Gesture" /\ last.tgt \in Pos)
     => (last.issued - last.idef = 1 /\ last.idef = 1)
  /\ last.op # "Gesture" => last.issued = 0

\* C20: when the hover lookup of the dock chain resolves with content while
\* the definition lookup is pending, the position is docked and shown at
\* once with no definition target; when the definition lookup resolves after
\* that, the same position stays docked, sticky and shown, now with the
\* definition result (no target when the lookup found none).
C20_DockBeforeDefinition ==
  [][/\ (/\ last'.op = "DockHover" /\ last'.out = "content"
         /\ \E i \in dInner : i.h = "pending" /\ i.d = "pending")
        => /\ fixedTooltip'.target = last'.tgt
           /\ fixedTooltip'.def = "undef"
           /\ sticky' = {last'.tgt}
           /\ tip' = [kind |-> "shown", target |-> last'.tgt,
                      docked |-> TRUE, def |-> "undef"]
     /\ (/\ last'.op = "DockDef"
         /\ \E i \in dInner : /\ i.h = "content" /\ i.d = "pending"
                               /\ fixedTooltip.target = i.target)
        => LET def == IF last'.out = "null" THEN "undef" ELSE last'.out IN
           /\ fixedTooltip'.target = fixedTooltip.target
           /\ fixedTooltip'.def = def
           /\ sticky' = {fixedTooltip.target}
           /\ tip' = [kind |-> "shown", target |-> fixedTooltip.target,
                      docked |-> TRUE, def |-> def]]_vars

\* The definition lookup of the dock chain resolved with a target after the
\* position had been docked without one.
C20_Witness ==
  /\ last.op = "DockDef" /\ last.out = "url"
  /\ last.pre = last.tgt
  /\ fixedTooltip.target = last.tgt /\ fixedTooltip.def = "url"
  /\ tip.docked /\ tip.def = "url"
  /\ log.TooltipDocked = 1 /\ log.TooltipDockedWithDefinition = 1

\* C21: TooltipDockedWithDefinition is logged only when the tooltip docked
\* carries a definition target the definition lookup resolved with for that
\* position, and TooltipDocked is logged only when it carries none.
C21_DockedTelemetry ==
  [][/\ log'.TooltipDockedWithDefinition > log.TooltipDockedWithDefinition
        => /\ last'.op \in DockOps
           /\ fixedTooltip'.def = "url"
           /\ getJumpURL(fixedTooltip'.target) = "url"
     /\ log'.TooltipDocked > log.TooltipDocked
        => fixedTooltip'.def # "url"]_vars

\* C22 (as stated): an anchor gets the hover highlight only in a step in
\* which the hover lookup of a hover gesture resolves while nothing is
\* docked, and that step shows the Transient tooltip of the anchor.
C22_HighlightOnlyTransient ==
  [][hl' \ hl # {} =>
       /\ last'.op \in GestureOps /\ last'.type = "mouseover"
       /\ ~IsSet(fixedTooltip)
       /\ hl' \ hl = {last'.tgt}
       /\ tip'.kind = "shown" /\ ~tip'.docked /\ tip'.target = last'.tgt]_vars

\* C22 (amended): an anchor gets the hover highlight exactly when a hover
\* lookup of a gesture on it - hover or click, either subscription -
\* resolves with content, whether or not a tooltip is docked; the Transient
\* tooltip is shown only for a hover gesture with nothing docked, a docked
\* tooltip is left as it is, and every hover result of the dock chain leaves
\* no anchor highlighted.
C22_HighlightOnContent ==
  [][/\ hl' \ hl # {} =>
          /\ last'.op \in {"GNotifier", "GHover"} /\ last'.out = "content"
          /\ hl' = hl \cup {last'.tgt}
     /\ (last'.op \in {"GNotifier", "GHover"} /\ last'.out = "content")
          => last'.tgt \in hl'
     /\ (/\ last'.op = "GHover" /\ last'.out = "content"
         /\ last'.type = "mouseover")
          => IF IsSet(fixedTooltip)
               THEN UNCHANGED DockedView
               ELSE tip' = [kind |-> "shown", target |-> last'.tgt,
                            docked |-> FALSE, def |-> "undef"]
     /\ last'.op = "DockHover" => hl' = {}]_vars

\* The hover lookup of a hover gesture resolved with content while another
\* position was docked: its anchor is highlighted next to the docked one.
C22_Witness ==
  /\ last.op = "GHover" /\ last.type = "mouseover" /\ last.out = "content"
  /\ last.pre \in Pos \ {last.tgt}
  /\ sticky = {last.pre}
  /\ last.tgt \in hl
  /\ tip.docked /\ tip.target = last.pre

\* C23: while the grid is mounted the gesture chain and the dock chain stay
\* subscribed whatever lookups have failed, so a hover lookup of a hover
\* gesture resolving with content with nothing docked shows the Transient
\* tooltip and a hover lookup of the dock chain resolving with content docks
\* the position, also after a failed lookup.
C23_FailureKeepsChains ==
  /\ phase = "mounted" => {"gesture", "dock"} \subseteq subs
  /\ (/\ last.op = "GHover" /\ last.type = "mouseover"
      /\ last.out = "content" /\ last.pre = None)
     => (tip.kind = "shown" /\ ~tip.docked /\ tip.target = last.tgt)
  /\ (last.op = "DockHover" /\ last.out = "content")
     => /\ fixedTooltip.target = last.tgt
        /\ tip.kind = "shown" /\ tip.docked /\ tip.target = last.tgt

\* The hover lookup of a click gesture failed, its fallback went to the dock
\* chain, and the hover lookup made there has docked the position.
C23_Witness ==
  /\ failed
  /\ last.op = "DockHover" /\ last.out = "content"
  /\ \E i \in dInner : i.target = last.tgt /\ i.d = "pending"
  /\ fixedTooltip.target = last.tgt
  /\ {"gesture", "dock"} \subseteq subs

\* C24: a raw mouseover or click produces no gesture itself and replaces
\* the pending event of the one debounced stream; a gesture is produced only
\* when the interval elapses, once for the pending event, and it carries the
\* kind and the target of that event, the last of the burst.
C24_Debounce ==
  [][/\ (last'.op = "RawEvent" /\ "gesture" \in subs)
        => /\ deb' = [type |-> last'.type, target |-> last'.tgt]
           /\ UNCHANGED <<gInner, cur>>
           /\ last'.issued = 0
     /\ last'.op = "Gesture"
        => /\ deb # NoEvent /\ deb' = NoEvent
           /\ last'.type = deb.type /\ last'.tgt = deb.target
           /\ deb.target \in Pos
                => /\ cur' = deb.target
                   /\ gInner' = {[type |-> deb.type, target |-> deb.target,
                                  n |-> TRUE, m |-> TRUE, t |-> TRUE]}
     /\ (cur' # cur \/ \E i \in gInner' \ gInner : i.n /\ i.m /\ i.t)
        => last'.op = "Gesture"]_vars

\* Two raw events have arrived within the interval: no gesture has been
\* produced and the pending event is the second one, a click that replaced a
\* mouseover.
C24_Witness ==
  /\ last.op = "RawEvent" /\ last.flag
  /\ nev = 2 /\ cur = None /\ gInner = {}
  /\ deb = [type |-> "click", target |-> last.tgt]
  /\ last.tgt \in Pos

\* C25: a lookup result or a loading-timer expiry that directly follows
\* Escape, a dismiss or a mouseout with nothing docked - so belongs to a
\* gesture that began before it - leaves the tooltip hidden and nothing
\* docked.
C25_IdleAfterClear ==
  [][(/\ \/ last.op \in {"Escape", "Dismiss"}
         \/ last.op = "MouseOut" /\ last.pre = None
      /\ last'.op \in LookupOps)
     => (tip' = Hidden /\ ~IsSet(fixedTooltip'))]_vars

\* C26: the first click, on a position whose hover lookup resolves with
\* content, leads to that position being docked unless a lookup fails, a
\* second click arrives, the tooltip is dismissed or the grid is unmounted;
\* a mouseover after the click is no excuse.
C26_ClickDocks ==
  \A p \in Pos :
    (/\ last.op = "RawEvent" /\ last.type = "click" /\ last.tgt = p
     /\ nev = 1 /\ "gesture" \in subs
     /\ hoverOf[p] = "content")
    ~> (\/ fixedTooltip.target = p
        \/ last.out \in Failures
        \/ last.op = "RawEvent" /\ last.type = "click" /\ nev > 1
        \/ last.op \in {"Escape", "Dismiss", "GoToDefinition", "Unmount"}
        \/ phase = "unmounted")

\* C27: while the grid is mounted, state.fixedTooltip is set exactly when
\* its target carries the sticky class and the tooltip is shown docked at
\* it, whatever another grid of the document does.
C27_DockedIffSticky ==
  phase = "mounted" =>
    /\ IsSet(fixedTooltip) =>
         /\ sticky = {fixedTooltip.target}
         /\ tip.kind = "shown" /\ tip.docked /\ tip.target = fixedTooltip.target
    /\ ~IsSet(fixedTooltip) =>
         /\ sticky = {}
         /\ ~(tip.kind = "shown" /\ tip.docked /\ tip.target \in Pos)

====
